---- MODULE Spec2Model ----
(***************************************************************************)
(* Model of the federated-learning client of fling:                        *)
(*   fling/component/client/base_client.py  (BaseClient)                   *)
(*   fling/dataset/mnist.py, fling/dataset/cifar100.py (dataset adapters)  *)
(*                                                                         *)
(* Two specifications share the variables:                                 *)
(*   SpecConstruct - BaseClient.__init__ over every shard, validation      *)
(*                   fraction, batch size and shuffle outcome;             *)
(*   Spec          - the train / test / finetune lifecycle of a            *)
(*                   constructed client, statement by statement, with the  *)
(*                   exceptions the collaborators can raise.               *)
(***************************************************************************)
EXTENDS Integers, Sequences, FiniteSets, TLC

\* ------------------------------------------------------------------ bounds
MaxBase == 3        \* samples of the base dataset wrapped by an adapter
MaxBatchSize == 2   \* args.learn.batch_size ranges over 1..MaxBatchSize
MaxEps == 2         \* local_eps / finetune_eps range over 0..MaxEps
MaxBatches == 2     \* samples per dataset (batch_size 1) in the lifecycle specification
MaxParam == 1       \* parameter values are 0..MaxParam

\* val_frac is q/4 for q in 0..3.  Quarters are dyadic, so the float
\* expression (1 - val_frac) * len(train_dataset) of base_client.py:45 is
\* exact and int() of it is the floor of the exact product.
FracDen == 4

Null == "None"

\* None where the other values are integers.
NoneInt == 0 - 1

VARIABLES
    \* ---- construction (BaseClient.__init__)
    adapters,          \* heap of dataset-adapter objects: id -> record or NoAdapter
    val_frac,          \* args.client.val_frac, in quarters
    batch_size,        \* args.learn.batch_size
    has_test_dataset,  \* test_dataset is not None
    cstate,            \* "new" before __init__, "constructed" after
    real_train,        \* id of the train copy (Null when val_frac = 0)
    real_test,         \* id of the validation copy (Null when val_frac = 0)
    sample_num,        \* self.sample_num
    train_batches,     \* len(self.train_dataloader)
    val_batches,       \* len(self.val_dataloader), NoneInt when absent
    test_batches,      \* len(self.test_dataloader), NoneInt when the attribute is absent
    \* ---- lifecycle (train / test / finetune)
    local_eps,         \* args.learn.local_eps
    heap,              \* model objects: id -> [params, mode, place] or NoObject
    model,             \* self.model (an object id)
    shared,            \* the model object the outer system holds
    device,            \* self.device
    pc,                \* position of the running call, "idle" between calls
    frame,             \* locals of the running call
    tframe,            \* locals of a running test() call
    outcome,           \* how the last call ended: "none", "returned", "raised"
    ret,               \* value returned by the last call
    pre,               \* state captured at the entry of the running/last call
    obs                \* observations of the running/last call

cvars == <<adapters, val_frac, batch_size, has_test_dataset, cstate, real_train,
           real_test, sample_num, train_batches, val_batches, test_batches>>
lvars == <<local_eps, heap, model, shared, device, pc, frame, tframe, outcome,
           ret, pre, obs>>
vars == <<adapters, val_frac, batch_size, has_test_dataset, cstate, real_train,
          real_test, sample_num, train_batches, val_batches, test_batches,
          local_eps, heap, model, shared, device, pc, frame, tframe, outcome,
          ret, pre, obs>>

\* ============================================================ helpers
Range(s) == {s[i] : i \in 1..Len(s)}

Min(a, b) == IF a < b THEN a ELSE b

\* Python slices s[:k] and s[k:] for k >= 0 (k is clamped to len(s)).
SlicePrefix(s, k) == SubSeq(s, 1, Min(k, Len(s)))

SliceSuffix(s, k) == SubSeq(s, Min(k, Len(s)) + 1, Len(s))

\* All orders random.shuffle can leave a list in.
Permutations_(s) ==
    {p \in [1..Len(s) -> Range(s)] :
        \A x \in Range(s) :
            Cardinality({i \in 1..Len(s) : p[i] = x}) =
            Cardinality({i \in 1..Len(s) : s[i] = x})}

\* The ascending sequence of a set of naturals.
RECURSIVE SortedSeq(_)
SortedSeq(S) ==
    IF S = {} THEN <<>>
    ELSE LET m == CHOOSE x \in S : \A y \in S : x <= y
         IN <<m>> \o SortedSeq(S \ {m})

CeilDiv(a, b) == (a + b - 1) \div b

\* ============================================================ dataset adapters
\* An adapter object: the wrapped base dataset (its number of samples), the
\* class that wraps it, and the index sequence of the active subset that
\* BaseClient.__init__ reads and reassigns (base_client.py:42,47,48).
Adapter(kind, n, idx) == [kind |-> kind, dataset |-> n, indexes |-> idx]

NoAdapter == Adapter(Null, NoneInt, <<>>)

AdapterKinds == {"mnist", "cifar100"}

\* MNISTDataset.__len__: return len(self.dataset)
MNISTDataset_len(a) == a.dataset

\* CIFAR100Dataset.__len__: return len(self.dataset)
CIFAR100Dataset_len(a) == a.dataset

\* len(adapter), dispatched on the adapter's class.
DatasetLen(a) ==
    IF a.kind = "mnist" THEN MNISTDataset_len(a) ELSE CIFAR100Dataset_len(a)

\* len(DataLoader(dataset, batch_size, shuffle=True)): the sampler draws
\* len(dataset) samples, drop_last is False.
DataLoaderLen(a, bs) == CeilDiv(DatasetLen(a), bs)

\* Ids of the adapter objects.
TrainDatasetId == "train_dataset"
RealTrainId == "real_train"
RealTestId == "real_test"
TestDatasetId == "test_dataset"
AdapterIds == {TrainDatasetId, RealTrainId, RealTestId, TestDatasetId}

\* copy.deepcopy(train_dataset): a new object with equal, unshared fields.
DeepCopyAdapter(ads, src, dst) == [ads EXCEPT ![dst] = ads[src]]

\* int((1 - val_frac) * len(train_dataset)), val_frac = q / FracDen.
TrainCut(q, n) == ((FracDen - q) * n) \div FracDen

\* train_index = indexes[:cut]
TrainIndex(indexes, cut) == SlicePrefix(indexes, cut)

\* test_index = indexes[cut:]
TestIndexSkipOne(indexes, cut) == SliceSuffix(indexes, cut + 1)

TestIndex(indexes, cut) == SliceSuffix(indexes, cut)

\* self.sample_num of the val_frac = 0 branch: len(train_dataset)
SampleNumWhole(ads) == DatasetLen(ads[TrainDatasetId])

\* self.sample_num of the val_frac > 0 branch: len(real_train)
SampleNumSplit(ads) == DatasetLen(ads[RealTrainId])

\* The test loader of base_client.py:55-56; the attribute is never set when
\* test_dataset is None.
TestLoaderLen(ads, ht, bs) ==
    IF ht THEN DataLoaderLen(ads[TestDatasetId], bs) ELSE NoneInt

\* BaseClient.__init__, val_frac == 0: the whole shard is the train loader.
ClientInitWhole ==
    /\ cstate = "new"
    /\ val_frac = 0
    /\ sample_num' = SampleNumWhole(adapters)
    /\ train_batches' = DataLoaderLen(adapters[TrainDatasetId], batch_size)
    /\ test_batches' = TestLoaderLen(adapters, has_test_dataset, batch_size)
    /\ cstate' = "constructed"
    /\ UNCHANGED <<adapters, val_frac, batch_size, has_test_dataset,
                   real_train, real_test, val_batches>>
    /\ UNCHANGED lvars

\* BaseClient.__init__, val_frac > 0: two deep copies of the shard, the
\* indexes of the first shuffled in place and cut into a prefix (train) and
\* a suffix (validation).
ClientInitSplit ==
    /\ cstate = "new"
    /\ val_frac # 0
    /\ LET a1 == DeepCopyAdapter(adapters, TrainDatasetId, RealTrainId)
           a2 == DeepCopyAdapter(a1, TrainDatasetId, RealTestId)
       IN \E indexes \in Permutations_(a2[RealTrainId].indexes) :
            LET a3 == [a2 EXCEPT ![RealTrainId].indexes = indexes]
                cut == TrainCut(val_frac, DatasetLen(a3[TrainDatasetId]))
                a4 == [a3 EXCEPT ![RealTrainId].indexes = TrainIndex(indexes, cut)]
                a5 == [a4 EXCEPT ![RealTestId].indexes = TestIndex(indexes, cut)]
            IN /\ adapters' = a5
               /\ real_train' = RealTrainId
               /\ real_test' = RealTestId
               /\ sample_num' = SampleNumSplit(a5)
               /\ train_batches' = DataLoaderLen(a5[RealTrainId], batch_size)
               /\ val_batches' = DataLoaderLen(a5[RealTestId], batch_size)
               /\ test_batches' = TestLoaderLen(a5, has_test_dataset, batch_size)
    /\ cstate' = "constructed"
    /\ UNCHANGED <<val_frac, batch_size, has_test_dataset>>
    /\ UNCHANGED lvars

\* Shards handed to a client: an adapter over a base dataset of n samples
\* whose active indexes are unique and within bounds.
Shards ==
    {Adapter(k, n, SortedSeq(S)) :
        k \in AdapterKinds, n \in 1..MaxBase, S \in SUBSET (0..(MaxBase - 1))}

ValidShard(a) == \A i \in 1..Len(a.indexes) : a.indexes[i] < a.dataset


\* ============================================================ model objects
\* A model object (nn.Module): its parameter values, its train/eval mode
\* and the device it is placed on.  Objects live on a heap because the
\* client, the outer system and finetune's snapshot hold references.
ModelIds == {"M0", "M1", "M2"}

NoObject == [params |-> NoneInt, mode |-> Null, place |-> Null]

ParamValues == 0..MaxParam

Devices == {"cpu", "cuda"}

\* model.train() / model.eval()
SetMode(h, m, mode) == [h EXCEPT ![m].mode = mode]

\* model.to(dev): moves the object itself, in place.
MoveTo(h, m, dev) == [h EXCEPT ![m].place = dev]

\* Objects still referenced by the client or by the outer system; the rest
\* are reclaimed by reference counting.
Collect(h, keep) == [i \in ModelIds |-> IF i \in keep THEN h[i] ELSE NoObject]

FreeId(h) == CHOOSE i \in ModelIds : h[i] = NoObject

\* ============================================================ metric monitor
\* VariableMonitor: per append, the names of the metrics recorded;
\* variable_mean() has one entry per name appended at least once.
MonitorNew == <<>>

MonitorAppend(mon, names) == Append(mon, names)

VariableMean(mon) == UNION Range(mon)

TrainMetrics == {"train_acc", "train_loss"}

TestMetrics == {"test_acc", "test_loss"}

\* ============================================================ call frames
NoFrame ==
    [op |-> Null, device_arg |-> Null, device_bak |-> Null, model_bak |-> Null,
     opt_target |-> Null, eps |-> NoneInt, epoch |-> 0, batch |-> 0,
     monitor |-> MonitorNew, mean |-> {}, info |-> <<>>]

\* No value returned (yet).
NoRet == {}

NoTFrame == [caller |-> Null, batch |-> 0, monitor |-> MonitorNew]

NoPre == [op |-> Null, model |-> Null, params |-> 0, device |-> Null,
          device_arg |-> Null, eps |-> NoneInt]

NoObs == [moved |-> {}, events |-> <<>>, bad_step |-> FALSE]

\* State captured when a call is entered.
Entry(op, dev, eps) ==
    [op |-> op, model |-> model, params |-> heap[model].params,
     device |-> device, device_arg |-> dev, eps |-> eps]

\* ``if device is not None: device_bak = self.device; self.device = device``
OverrideDevice(dev) == IF dev # Null THEN dev ELSE device

\* ``if device is not None: self.device = device_bak``
RestoreDevice(f) == IF f.device_arg # Null THEN f.device_bak ELSE device

\* Objects placed on an accelerator by model.to(dev).
Moved(o, m, dev) == IF dev # "cpu" THEN o.moved \cup {m} ELSE o.moved

\* A loop that tests its bound after the body.
InRangeAfterBody(i, n) == i < n \/ i = 0

\* range(n) still has an iteration left after i of them.
InRange(i, n) == i < n

\* One train_step (base_client.py:58-73) on the model self.model: forward
\* pass of self.model, monitor.append of the train metrics, optimizer.step()
\* on the parameters the optimizer was built over.  The gradient step may
\* leave any parameter value.
TrainStep(f, p) ==
    /\ heap' = [heap EXCEPT ![f.opt_target].params = p]
    /\ obs' = [obs EXCEPT !.events = Append(@, "train_step"),
                          !.bad_step = @ \/ heap[model].mode # "train"
                                         \/ heap[model].place # device]


\* ============================================================ train(lr, device)
\* base_client.py:96-100: optional device override, model.train(),
\* model.to(self.device).
CallTrain ==
    /\ cstate = "constructed" /\ pc = "idle"
    /\ \E dev \in Devices \cup {Null} :
         LET d == OverrideDevice(dev)
         IN /\ pre' = Entry("train", dev, NoneInt)
            /\ frame' = [NoFrame EXCEPT !.op = "train", !.device_arg = dev,
                                        !.device_bak = IF dev # Null THEN device ELSE Null]
            /\ device' = d
            /\ heap' = MoveTo(SetMode(heap, model, "train"), model, d)
            /\ obs' = [NoObs EXCEPT !.moved = Moved(NoObs, model, d)]
    /\ pc' = "train_opt"
    /\ outcome' = "none"
    /\ ret' = NoRet
    /\ UNCHANGED <<local_eps, model, shared, tframe>>
    /\ UNCHANGED cvars

\* base_client.py:103-109: weights = self.model.parameters(), get_optimizer,
\* criterion, a single monitor for the whole call.
TrainGetOptimizer ==
    /\ pc = "train_opt"
    /\ frame' = [frame EXCEPT !.opt_target = model, !.monitor = MonitorNew,
                              !.epoch = 0, !.batch = 0]
    /\ pc' = "train_loop"
    /\ UNCHANGED <<local_eps, heap, model, shared, device, tframe, outcome, ret, pre, obs>>
    /\ UNCHANGED cvars

\* base_client.py:112-116: one batch of one epoch.
TrainBatch ==
    /\ pc = "train_loop"
    /\ InRange(frame.epoch, local_eps)
    /\ InRange(frame.batch, train_batches)
    /\ \E p \in ParamValues : TrainStep(frame, p)
    /\ frame' = [frame EXCEPT
                   !.monitor = MonitorAppend(@, TrainMetrics),
                   !.batch = IF InRange(frame.batch + 1, train_batches) THEN frame.batch + 1 ELSE 0,
                   !.epoch = IF InRange(frame.batch + 1, train_batches) THEN @ ELSE @ + 1]
    /\ UNCHANGED <<local_eps, model, shared, device, pc, tframe, outcome, ret, pre>>
    /\ UNCHANGED cvars

\* base_client.py:119-127: mean metrics, model.to('cpu'), device restore,
\* return.
TrainReturn ==
    /\ pc = "train_loop"
    /\ ~InRange(frame.epoch, local_eps)
    /\ ret' = VariableMean(frame.monitor)
    /\ heap' = MoveTo(heap, model, "cpu")
    /\ device' = RestoreDevice(frame)
    /\ frame' = NoFrame
    /\ pc' = "idle"
    /\ outcome' = "returned"
    /\ UNCHANGED <<local_eps, model, shared, tframe, pre, obs>>
    /\ UNCHANGED cvars

\* ============================================================ test()
\* base_client.py:179-183: model.eval(), model.to(self.device), criterion,
\* monitor.
EnterTest(caller) ==
    /\ heap' = MoveTo(SetMode(heap, model, "eval"), model, device)
    /\ tframe' = [caller |-> caller, batch |-> 0, monitor |-> MonitorNew]
    /\ pc' = "test_loop"

CallTest ==
    /\ cstate = "constructed" /\ pc = "idle"
    /\ EnterTest("outer")
    /\ pre' = Entry("test", Null, NoneInt)
    /\ obs' = [NoObs EXCEPT !.moved = Moved(NoObs, model, device),
                            !.events = <<"test">>]
    /\ frame' = NoFrame
    /\ outcome' = "none"
    /\ ret' = NoRet
    /\ UNCHANGED <<local_eps, model, shared, device>>
    /\ UNCHANGED cvars

\* base_client.py:187-190: one test batch; test_step changes no parameter.
TestBatch ==
    /\ pc = "test_loop"
    /\ test_batches # NoneInt
    /\ InRange(tframe.batch, test_batches)
    /\ tframe' = [tframe EXCEPT !.batch = @ + 1,
                                !.monitor = MonitorAppend(@, TestMetrics)]
    /\ UNCHANGED <<local_eps, heap, model, shared, device, pc, frame, outcome, ret, pre, obs>>
    /\ UNCHANGED cvars

TestLoopDone ==
    /\ pc = "test_loop"
    /\ test_batches # NoneInt
    /\ ~InRange(tframe.batch, test_batches)

\* base_client.py:193-198 for a call from the outer system.
TestReturn ==
    /\ TestLoopDone
    /\ tframe.caller = "outer"
    /\ ret' = VariableMean(tframe.monitor)
    /\ heap' = MoveTo(heap, model, "cpu")
    /\ tframe' = NoTFrame
    /\ pc' = "idle"
    /\ outcome' = "returned"
    /\ UNCHANGED <<local_eps, model, shared, device, frame, pre, obs>>
    /\ UNCHANGED cvars


\* ============================================================ finetune(...)
\* model_bak = self.model: the snapshot shares the object.
SnapshotAlias(h, m) == [heap |-> h, ref |-> m]

\* model_bak = copy.deepcopy(self.model): a new object with the same
\* parameters, mode and placement.
SnapshotModel(h, m) ==
    [heap |-> [h EXCEPT ![FreeId(h)] = h[m]], ref |-> FreeId(h)]

\* An epoch that leaves mode and placement as test() left them.
EpochPrepareNothing(h, m, dev) == h

\* base_client.py:156-157: self.model.train(); self.model.to(self.device)
EpochPrepare(h, m, dev) == MoveTo(SetMode(h, m, "train"), m, dev)

\* ``if finetune_eps is None: finetune_eps = self.args.learn.local_eps``
FinetuneEps(eps) == IF eps = NoneInt THEN local_eps ELSE eps

\* base_client.py:133-140: optional device override, snapshot, model.train(),
\* model.to(self.device), info = [].
CallFinetune ==
    /\ cstate = "constructed" /\ pc = "idle"
    /\ \E dev \in Devices \cup {Null}, eps \in (0..MaxEps) \cup {NoneInt} :
         LET d == OverrideDevice(dev)
             snap == SnapshotModel(heap, model)
         IN /\ pre' = Entry("finetune", dev, eps)
            /\ frame' = [NoFrame EXCEPT !.op = "finetune", !.device_arg = dev,
                                        !.device_bak = IF dev # Null THEN device ELSE Null,
                                        !.model_bak = snap.ref, !.eps = eps,
                                        !.info = <<>>]
            /\ device' = d
            /\ heap' = MoveTo(SetMode(snap.heap, model, "train"), model, d)
            /\ obs' = [NoObs EXCEPT !.moved = Moved(NoObs, model, d)]
    /\ pc' = "ft_opt"
    /\ outcome' = "none"
    /\ ret' = NoRet
    /\ UNCHANGED <<local_eps, model, shared, tframe>>
    /\ UNCHANGED cvars

\* base_client.py:144-154: get_finetune_parameters(self.model, ...),
\* get_optimizer, criterion, default of finetune_eps.
FinetuneGetOptimizer ==
    /\ pc = "ft_opt"
    /\ frame' = [frame EXCEPT !.opt_target = model, !.eps = FinetuneEps(frame.eps),
                              !.epoch = 0]
    /\ pc' = "ft_epoch"
    /\ UNCHANGED <<local_eps, heap, model, shared, device, tframe, outcome, ret, pre, obs>>
    /\ UNCHANGED cvars

\* base_client.py:155-158: the head of one epoch.
FinetuneEpochBegin ==
    /\ pc = "ft_epoch"
    /\ InRange(frame.epoch, frame.eps)
    /\ heap' = EpochPrepare(heap, model, device)
    /\ obs' = [obs EXCEPT !.moved = Moved(obs, model, device)]
    /\ frame' = [frame EXCEPT !.monitor = MonitorNew, !.batch = 0]
    /\ pc' = "ft_batch"
    /\ UNCHANGED <<local_eps, model, shared, device, tframe, outcome, ret, pre>>
    /\ UNCHANGED cvars

\* base_client.py:159-162: one batch of the epoch's training pass.
FinetuneBatch ==
    /\ pc = "ft_batch"
    /\ InRange(frame.batch, train_batches)
    /\ \E p \in ParamValues : TrainStep(frame, p)
    /\ frame' = [frame EXCEPT !.monitor = MonitorAppend(@, TrainMetrics),
                              !.batch = @ + 1]
    /\ UNCHANGED <<local_eps, model, shared, device, pc, tframe, outcome, ret, pre>>
    /\ UNCHANGED cvars

\* base_client.py:165-166: the epoch's train means, then the call of test().
FinetuneCallTest ==
    /\ pc = "ft_batch"
    /\ ~InRange(frame.batch, train_batches)
    /\ frame' = [frame EXCEPT !.mean = VariableMean(frame.monitor)]
    /\ EnterTest("finetune")
    /\ obs' = [obs EXCEPT !.moved = Moved(obs, model, device),
                          !.events = Append(@, "test")]
    /\ UNCHANGED <<local_eps, model, shared, device, outcome, ret, pre>>
    /\ UNCHANGED cvars

\* base_client.py:193-198 then 166-167: test() returns into the epoch, its
\* metrics update the epoch's mapping, which is appended to info.
TestReturnToFinetune ==
    /\ TestLoopDone
    /\ tframe.caller = "finetune"
    /\ heap' = MoveTo(heap, model, "cpu")
    /\ frame' = [frame EXCEPT
                   !.info = Append(@, frame.mean \cup VariableMean(tframe.monitor)),
                   !.epoch = @ + 1]
    /\ tframe' = NoTFrame
    /\ pc' = "ft_epoch"
    /\ UNCHANGED <<local_eps, model, shared, device, outcome, ret, pre, obs>>
    /\ UNCHANGED cvars

\* base_client.py:169-173: self.model = model_bak, device restore, return.
FinetuneReturn ==
    /\ pc = "ft_epoch"
    /\ ~InRange(frame.epoch, frame.eps)
    /\ model' = frame.model_bak
    /\ heap' = Collect(heap, {shared, frame.model_bak})
    /\ device' = RestoreDevice(frame)
    /\ ret' = frame.info
    /\ frame' = NoFrame
    /\ pc' = "idle"
    /\ outcome' = "returned"
    /\ UNCHANGED <<local_eps, shared, tframe, pre, obs>>
    /\ UNCHANGED cvars

\* ============================================================ exceptions
\* An exception leaves the running call (and finetune's call of test) at
\* once: no statement after the raising one runs, the locals are dropped.
Propagate ==
    /\ heap' = Collect(heap, {shared, model})
    /\ frame' = NoFrame
    /\ tframe' = NoTFrame
    /\ pc' = "idle"
    /\ outcome' = "raised"
    /\ obs' = NoObs
    /\ UNCHANGED <<local_eps, model, shared, device, ret, pre>>
    /\ UNCHANGED cvars

\* get_optimizer / get_finetune_parameters raise (unknown optimizer name,
\* invalid finetune_args).
RaiseInOptimizer ==
    /\ pc \in {"train_opt", "ft_opt"}
    /\ Propagate

\* preprocess_data or train_step raises on a batch (out of memory, shape
\* mismatch).
RaiseInTrainStep ==
    /\ \/ pc = "train_loop" /\ InRange(frame.epoch, local_eps)
       \/ pc = "ft_batch" /\ InRange(frame.batch, train_batches)
    /\ Propagate

\* base_client.py:187: self.test_dataloader does not exist when the client
\* was built without a test dataset (AttributeError).
RaiseNoTestLoader ==
    /\ pc = "test_loop"
    /\ test_batches = NoneInt
    /\ Propagate

\* test_step raises on a batch.
RaiseInTestStep ==
    /\ pc = "test_loop"
    /\ test_batches # NoneInt
    /\ InRange(tframe.batch, test_batches)
    /\ Propagate


\* ============================================================ specifications
FullIndexes(n) == [i \in 1..n |-> i - 1]

\* A client between calls, holding the model object of the outer system:
\* a freshly built module is in training mode on the cpu.
LifecycleIdle(eps, dev) ==
    /\ local_eps = eps
    /\ heap = [i \in ModelIds |->
                 IF i = "M0" THEN [params |-> 0, mode |-> "train", place |-> "cpu"]
                 ELSE NoObject]
    /\ model = "M0"
    /\ shared = "M0"
    /\ device = dev
    /\ pc = "idle"
    /\ frame = NoFrame
    /\ tframe = NoTFrame
    /\ outcome = "none"
    /\ ret = NoRet
    /\ pre = NoPre
    /\ obs = NoObs

\* The arguments of BaseClient.__init__.
ConstructorArgs(shard, test, q, bs) ==
    /\ adapters = [i \in AdapterIds |->
                     IF i = TrainDatasetId THEN shard
                     ELSE IF i = TestDatasetId THEN test ELSE NoAdapter]
    /\ has_test_dataset = (test # NoAdapter)
    /\ val_frac = q
    /\ batch_size = bs

\* Before __init__: every shard, validation fraction, batch size and
\* optional test dataset.
InitConstruct ==
    /\ \E shard \in {a \in Shards : ValidShard(a)},
          nt \in (1..MaxBase) \cup {NoneInt},
          q \in 0..(FracDen - 1),
          bs \in 1..MaxBatchSize :
         ConstructorArgs(shard,
                         IF nt = NoneInt THEN NoAdapter
                         ELSE Adapter(shard.kind, nt, FullIndexes(nt)),
                         q, bs)
    /\ cstate = "new"
    /\ real_train = Null /\ real_test = Null
    /\ sample_num = NoneInt
    /\ train_batches = NoneInt /\ val_batches = NoneInt /\ test_batches = NoneInt
    /\ LifecycleIdle(1, "cpu")

NextConstruct == ClientInitWhole \/ ClientInitSplit

SpecConstruct == InitConstruct /\ [][NextConstruct]_vars

\* After __init__ with val_frac = 0 and batch size 1 over a whole base
\* dataset, without a test dataset or with one of the same size.
Init ==
    /\ \E n \in 1..MaxBatches, ht \in BOOLEAN :
         ConstructorArgs(Adapter("mnist", n, FullIndexes(n)),
                         IF ht THEN Adapter("mnist", n, FullIndexes(n))
                         ELSE NoAdapter,
                         0, 1)
    /\ cstate = "constructed"
    /\ real_train = Null /\ real_test = Null
    /\ val_batches = NoneInt
    /\ sample_num = SampleNumWhole(adapters)
    /\ train_batches = DataLoaderLen(adapters[TrainDatasetId], batch_size)
    /\ test_batches = TestLoaderLen(adapters, has_test_dataset, batch_size)
    /\ \E eps \in {0, MaxEps}, dev \in Devices : LifecycleIdle(eps, dev)

Next ==
    \/ CallTrain
    \/ TrainGetOptimizer
    \/ TrainBatch
    \/ TrainReturn
    \/ CallTest
    \/ TestBatch
    \/ TestReturn
    \/ CallFinetune
    \/ FinetuneGetOptimizer
    \/ FinetuneEpochBegin
    \/ FinetuneBatch
    \/ FinetuneCallTest
    \/ TestReturnToFinetune
    \/ FinetuneReturn
    \/ RaiseInOptimizer
    \/ RaiseInTrainStep
    \/ RaiseNoTestLoader
    \/ RaiseInTestStep

Spec == Init /\ [][Next]_vars


\* ============================================================ properties
\* The last call was `op` and it returned normally.
Returned(op) == pc = "idle" /\ outcome = "returned" /\ pre.op = op

\* The last call was `op` and an exception propagated out of it.
Raised(op) == pc = "idle" /\ outcome = "raised" /\ pre.op = op

\* The epochs finetune was asked for.
AskedEps == FinetuneEps(pre.eps)

IsInjective(sq) == Cardinality(Range(sq)) = Len(sq)

\* C1: after finetune returns, for every finetune_eps (also the default) and
\* every device argument, the model the client holds has the parameter
\* values the client's model had when finetune was called.
FinetuneKeepsClientParams ==
    Returned("finetune") => heap[model].params = pre.params

\* C1 witness: a finetune with a device override ran at least one epoch,
\* its train steps changed the finetuned object, and the client's model has
\* the entry parameters.
FinetuneKeepsClientParamsWitness ==
    /\ Returned("finetune")
    /\ pre.device_arg = "cuda"
    /\ Len(ret) >= 1
    /\ pre.model = shared
    /\ heap[shared].params # pre.params
    /\ heap[model].params = pre.params

\* C2: for finetune_eps >= 1 and a non-empty training loader, the object the
\* outer system holds (the object self.model denoted at the call) has the
\* same parameter values after finetune returns as before.
FinetuneKeepsSharedObject ==
    (Returned("finetune") /\ AskedEps >= 1 /\ train_batches >= 1 /\ pre.model = shared)
        => heap[shared].params = pre.params

\* C3: between calls the client's model reference denotes the object the
\* outer system holds.
ClientModelIsShared ==
    (cstate = "constructed" /\ pc = "idle") => model = shared

\* C4: when an exception propagates out of train or finetune, the device
\* setting is the one before the call, the client's model is on the cpu, and
\* after finetune the client's model has the parameters of the snapshot.
ExceptionRestores ==
    (Raised("train") \/ Raised("finetune")) =>
        /\ device = pre.device
        /\ heap[model].place = "cpu"
        /\ (pre.op = "finetune" => heap[model].params = pre.params)

\* C5: when train, test or finetune returns normally, every model object the
\* call moved onto the accelerator is on the cpu.
ReturnReleasesAccelerator ==
    (pc = "idle" /\ outcome = "returned") =>
        \A o \in obs.moved : heap[o] # NoObject => heap[o].place = "cpu"

\* C6: for a validation fraction in (0,1), the train and validation index
\* sequences built by __init__ have sizes summing to the number of indexes
\* of the shard, are disjoint, and together hold each original index of the
\* shard exactly once, whatever the shuffle.
SplitPartitionsShard ==
    (cstate = "constructed" /\ val_frac # 0) =>
        LET tr == adapters[real_train].indexes
            te == adapters[real_test].indexes
            orig == adapters[TrainDatasetId].indexes
        IN /\ Len(tr) + Len(te) = Len(orig)
           /\ Range(tr) \cap Range(te) = {}
           /\ Range(tr) \cup Range(te) = Range(orig)
           /\ IsInjective(tr) /\ IsInjective(te)

\* C6 witness: a split with both parts non-empty whose train part is not a
\* prefix of the ascending order (the shuffle acted).
SplitPartitionsShardWitness ==
    /\ cstate = "constructed" /\ val_frac # 0
    /\ Len(adapters[real_train].indexes) >= 1
    /\ Len(adapters[real_test].indexes) >= 1
    /\ adapters[real_train].indexes[1] > adapters[real_test].indexes[1]

\* C7: after construction sample_num is the number of samples of the train
\* partition: the length of the whole shard when val_frac = 0, the length of
\* the train index subset when val_frac > 0.
SampleNumIsTrainPartition ==
    cstate = "constructed" =>
        sample_num = IF val_frac = 0
                     THEN DatasetLen(adapters[TrainDatasetId])
                     ELSE Len(adapters[real_train].indexes)

\* C8: the length of an adapter copy is the size of the index subset
\* assigned to it, and the original adapter keeps its indexes.
AdapterLenIsActiveSubset ==
    (cstate = "constructed" /\ val_frac # 0) =>
        /\ DatasetLen(adapters[real_train]) = Len(adapters[real_train].indexes)
        /\ DatasetLen(adapters[real_test]) = Len(adapters[real_test].indexes)
        /\ adapters[TrainDatasetId].indexes =
               SortedSeq(Range(adapters[TrainDatasetId].indexes))

\* C9: train with local_eps = 0 runs no train_step, returns an empty metrics
\* mapping and leaves the parameters of the model as they were.
TrainZeroEpochs ==
    (Returned("train") /\ local_eps = 0) =>
        /\ obs.events = <<>>
        /\ ret = {}
        /\ heap[model].params = pre.params

\* C9 witness: a train call with a device override returned with
\* local_eps = 0 over a loader of more than one batch.
TrainZeroEpochsWitness ==
    /\ Returned("train") /\ local_eps = 0
    /\ pre.device_arg = "cuda" /\ pre.device = "cpu"
    /\ train_batches >= 2

\* The events of `eps` epochs over `tb` batches: the whole pass, then test.
ExpectedEvents(eps, tb) ==
    [i \in 1..(eps * (tb + 1)) |->
        IF i % (tb + 1) = 0 THEN "test" ELSE "train_step"]

\* C10: finetune returns one element per epoch asked for (local_eps by
\* default, none for 0); each epoch runs its whole training pass and then
\* test(); every train_step runs with the model in training mode on the
\* client's device; every element has the train and the test metrics.
FinetuneEpochs ==
    /\ pre.op = "finetune" => ~obs.bad_step
    /\ Returned("finetune") =>
         /\ Len(ret) = AskedEps
         /\ obs.events = ExpectedEvents(AskedEps, train_batches)
         /\ \A i \in 1..Len(ret) : TrainMetrics \cup TestMetrics \subseteq ret[i]

\* C10 witness: a finetune on an overridden device returned after two or
\* more epochs of more than one batch each.
FinetuneEpochsWitness ==
    /\ Returned("finetune")
    /\ Len(ret) >= 2
    /\ train_batches >= 2
    /\ pre.device_arg = "cuda" /\ pre.device = "cpu"


====
